---- MODULE Spec2Model ----
(***************************************************************************)
(* Model of the Voxco survey chatbot: the interactive shell of             *)
(* gemini_chatbot/main.py (chat), the chat session wrapper GeminiClient    *)
(* and the three survey API adapter functions of utils/gemini_client.py.   *)
(* Strings that the code inspects (input lines, paths, exit phrases) are   *)
(* sequences of one-character strings, so that lower(), strip(),           *)
(* startswith() and slicing are computed as Python computes them.          *)
(***************************************************************************)
EXTENDS Integers, Sequences, FiniteSets, TLC

VARIABLES pc, session, exitCode, cliKey, environKey, cfgKey, exitCommands, fs,
          voxco_token, user_input, branch, contacted, raisedErr, sendReturn,
          displayed, lastCall, obtained, toolCalls, turns

vars == <<pc, session, exitCode, cliKey, environKey, cfgKey, exitCommands, fs,
          voxco_token, user_input, branch, contacted, raisedErr, sendReturn,
          displayed, lastCall, obtained, toolCalls, turns>>

-----------------------------------------------------------------------------
(* Bounds                                                                  *)

MaxTurns == 2

MaxToolCalls == 2

-----------------------------------------------------------------------------
(* Values                                                                  *)

\* Python's None
NONE == "<None>"

\* Python truthiness of an Optional[str]: None and "" are falsy
Falsy(x) == x = NONE \/ x = ""

Upper == <<"A","B","C","D","E","F","G","H","I","J","K","L","M",
           "N","O","P","Q","R","S","T","U","V","W","X","Y","Z">>

LowerLetters == <<"a","b","c","d","e","f","g","h","i","j","k","l","m",
                  "n","o","p","q","r","s","t","u","v","w","x","y","z">>

Whitespace == {" ", "\t", "\n"}

\* str.lower() on one character
LowerChar(c) ==
    IF \E i \in 1..Len(Upper) : Upper[i] = c
    THEN LowerLetters[CHOOSE i \in 1..Len(Upper) : Upper[i] = c]
    ELSE c

\* str.lower()
Lower(s) == [i \in 1..Len(s) |-> LowerChar(s[i])]

RECURSIVE LStrip(_)
LStrip(s) == IF s # <<>> /\ Head(s) \in Whitespace THEN LStrip(Tail(s)) ELSE s

RECURSIVE RStrip(_)
RStrip(s) ==
    IF s # <<>> /\ s[Len(s)] \in Whitespace
    THEN RStrip(SubSeq(s, 1, Len(s) - 1))
    ELSE s

\* str.strip()
Strip(s) == RStrip(LStrip(s))

\* str.startswith(prefix)
StartsWith(s, prefix) ==
    Len(s) >= Len(prefix) /\ SubSeq(s, 1, Len(prefix)) = prefix

\* s[n:]  (Python slice from 0-based index n)
SliceFrom(s, n) == IF Len(s) <= n THEN <<>> ELSE SubSeq(s, n + 1, Len(s))

FilePrefix == <<"f","i","l","e"," ">>

\* exit phrase sets the configuration may hold
ExitA == { <<"e","x","i","t">>, <<"q","u","i","t">> }

ExitB == { <<"e","x","i","t">>, <<"f","i","l","e"," ","a">> }

ExitSets == { ExitA, ExitB }

\* paths that may exist on the local filesystem
Paths == { <<"a">> }

\* lines the user may type
Lines == {
    <<"e","x","i","t">>,
    <<" ","E","x","I","T"," ">>,
    <<"Q","U","I","T","\t">>,
    <<"f","i","l","e"," ">>,
    <<"f","i","l","e"," ","a">>,
    <<"F","I","L","E"," ","a"," ">>,
    <<"F","i","l","e"," "," ","b"," ">>,
    <<" ","f","i","l","e"," ","a">>,
    <<"f","i","l","e">>,
    <<"h","i">>,
    <<>> }

ApiKeys == { NONE, "", "k" }

CliKeys == { NONE, "k" }

\* tokens the survey service may issue / the backend may pass to a tool
ServerTokens == { "T1" }

TokenArgs == { NONE, "", "T1", "T2" }

SurveyIds == { 7 }

Documents == { "{}", "not json" }

Replies == { "hello" }

BackendErrors == { "503 UNAVAILABLE" }

\* what requests.get / requests.post can produce
Responses ==
    { [status |-> "transport", body |-> "none",    Token |-> NONE],
      [status |-> "non2xx",    body |-> "none",    Token |-> NONE],
      [status |-> "2xx",       body |-> "object",  Token |-> NONE],
      [status |-> "2xx",       body |-> "array",   Token |-> NONE],
      [status |-> "2xx",       body |-> "notjson", Token |-> NONE] }
    \cup { [status |-> "2xx", body |-> "object", Token |-> t] : t \in ServerTokens }

NoCall == [fn |-> "none", token |-> NONE, authed |-> FALSE, held |-> NONE,
           status |-> "none", http |-> FALSE, result |-> NONE, raised |-> FALSE]

NoDisplay == [kind |-> "none", text |-> <<>>]

NoReturn == [raised |-> FALSE, value |-> <<>>]

-----------------------------------------------------------------------------
(* Remote survey API adapter                                               *)

\* requests.get raises on a transport failure and raise_for_status on a non-2xx
\* status; response.json() raises requests' JSONDecodeError on a body that is
\* not JSON: all three are RequestException and end in "return None".
\* data.get("Token") on a JSON body that is not an object raises AttributeError,
\* which the except clause does not catch.
authenticate_voxco(username, password, resp) ==
    IF resp.status \in {"transport", "non2xx"}
    THEN [http |-> TRUE, result |-> NONE, raised |-> FALSE]
    ELSE IF resp.body = "notjson"
    THEN [http |-> TRUE, result |-> NONE, raised |-> FALSE]
    ELSE IF resp.body # "object"
    THEN [http |-> TRUE, result |-> NONE, raised |-> TRUE]
    ELSE [http |-> TRUE, result |-> resp.Token, raised |-> FALSE]

load_survey_no_guard(token, survey_id, resp) ==
    IF token = NONE
    THEN [http |-> FALSE, result |-> NONE, raised |-> FALSE]
    ELSE IF resp.status \in {"transport", "non2xx"}
    THEN [http |-> TRUE, result |-> NONE, raised |-> FALSE]
    ELSE IF resp.body = "notjson"
    THEN [http |-> TRUE, result |-> NONE, raised |-> FALSE]
    ELSE [http |-> TRUE, result |-> resp.body, raised |-> FALSE]

load_survey(token, survey_id, resp) ==
    IF Falsy(token)
    THEN [http |-> FALSE, result |-> NONE, raised |-> FALSE]
    ELSE IF resp.status \in {"transport", "non2xx"}
    THEN [http |-> TRUE, result |-> NONE, raised |-> FALSE]
    ELSE IF resp.body = "notjson"
    THEN [http |-> TRUE, result |-> NONE, raised |-> FALSE]
    ELSE [http |-> TRUE, result |-> resp.body, raised |-> FALSE]

save_survey_unstubbed(token, survey_id, survey_data, resp) ==
    IF Falsy(token)
    THEN [http |-> FALSE, result |-> "False", raised |-> FALSE]
    ELSE IF resp.status \in {"transport", "non2xx"}
    THEN [http |-> TRUE, result |-> "False", raised |-> FALSE]
    ELSE [http |-> TRUE, result |-> "True", raised |-> FALSE]

\* the unconditional "return True" makes the rest of the body unreachable
save_survey(token, survey_id, survey_data, resp) ==
    [http |-> FALSE, result |-> "True", raised |-> FALSE]

-----------------------------------------------------------------------------
(* Chat session wrapper                                                    *)

ApiKeyMissing_only_none(api_key) == api_key = NONE

\* "if not self.api_key"
ApiKeyMissing(api_key) == Falsy(api_key)

send_message_reraise(e) == [raised |-> TRUE, value |-> <<e>>]

\* the except clause of send_message: f"Error in processing: {str(e)}"
send_message_except(e) == [raised |-> FALSE, value |-> <<"Error in processing: ", e>>]

\* the normal return of send_message: response.text
send_message_return(text) == [raised |-> FALSE, value |-> <<text>>]

-----------------------------------------------------------------------------
(* Interactive shell                                                       *)

Branch_file_first(line, cmds, files) ==
    IF StartsWith(Lower(line), FilePrefix)
    THEN IF Strip(SliceFrom(line, 5)) = <<>> THEN "file_empty"
         ELSE IF Strip(SliceFrom(line, 5)) \notin files THEN "file_missing"
         ELSE "file"
    ELSE IF Strip(Lower(line)) \in cmds THEN "exit"
    ELSE "forward"

Branch_no_exists_check(line, cmds, files) ==
    IF Strip(Lower(line)) \in cmds THEN "exit"
    ELSE IF StartsWith(Lower(line), FilePrefix)
    THEN IF Strip(SliceFrom(line, 5)) = <<>> THEN "file_empty"
         ELSE "file"
    ELSE "forward"

\* the branch the loop body takes for one input line
Branch(line, cmds, files) ==
    IF Strip(Lower(line)) \in cmds THEN "exit"
    ELSE IF StartsWith(Lower(line), FilePrefix)
    THEN IF Strip(SliceFrom(line, 5)) = <<>> THEN "file_empty"
         ELSE IF Strip(SliceFrom(line, 5)) \notin files THEN "file_missing"
         ELSE "file"
    ELSE "forward"

\* what the except clauses of the loop body print
ConsoleError(e) == [kind |-> "console_error", text |-> <<"Error: ", e>>]

\* display_response
display_response(text) == [kind |-> "response", text |-> text]

NoProcessFile == "'GeminiClient' object has no attribute 'process_file'"

KeyRequired == "Gemini API key is required. Set it in .env file or pass it to the constructor."

-----------------------------------------------------------------------------
Init ==
    /\ pc = "start"
    /\ session = "Uninitialized"
    /\ exitCode = NONE
    /\ cliKey \in CliKeys
    /\ environKey \in {NONE, "k"}
    /\ cfgKey \in ApiKeys
    /\ exitCommands \in ExitSets
    /\ fs \in SUBSET Paths
    /\ voxco_token = NONE
    /\ user_input = <<>>
    /\ branch = "none"
    /\ contacted = FALSE
    /\ raisedErr = NONE
    /\ sendReturn = NoReturn
    /\ displayed = NoDisplay
    /\ lastCall = NoCall
    /\ obtained = {}
    /\ toolCalls = 0
    /\ turns = 0

\* chat(): option handling, GeminiClient() and the welcome banner
Startup(backendOk) ==
    /\ pc = "start"
    /\ environKey' = IF ~Falsy(cliKey) THEN cliKey ELSE environKey
    /\ IF ApiKeyMissing(cfgKey)
       THEN /\ displayed' = ConsoleError(KeyRequired)
            /\ exitCode' = "1"
            /\ pc' = "exited"
            /\ UNCHANGED session
       ELSE IF ~backendOk
       THEN /\ displayed' = [kind |-> "unexpected", text |-> <<"Unexpected error: ", "client">>]
            /\ exitCode' = "1"
            /\ pc' = "exited"
            /\ UNCHANGED session
       ELSE /\ session' = "Active"
            /\ displayed' = [kind |-> "welcome", text |-> <<>>]
            /\ pc' = "prompt"
            /\ UNCHANGED exitCode
    /\ voxco_token' = NONE
    /\ UNCHANGED <<cliKey, cfgKey, exitCommands, fs, user_input, branch, contacted,
                   raisedErr, sendReturn, lastCall, obtained, toolCalls, turns>>

\* one pass of the loop body up to the point where the backend is called
ReadLine(line) ==
    /\ pc = "prompt"
    /\ turns < MaxTurns
    /\ turns' = turns + 1
    /\ user_input' = line
    /\ branch' = Branch(line, exitCommands, fs)
    /\ raisedErr' = NONE
    /\ sendReturn' = NoReturn
    /\ lastCall' = NoCall
    /\ toolCalls' = 0
    /\ CASE branch' = "exit" ->
              /\ displayed' = [kind |-> "goodbye", text |-> <<>>]
              /\ pc' = "exited"
              /\ exitCode' = "0"
              /\ contacted' = FALSE
         [] branch' = "file_empty" ->
              /\ displayed' = [kind |-> "local_error",
                               text |-> <<"Error: Please specify a file name">>]
              /\ pc' = "prompt"
              /\ contacted' = FALSE
              /\ UNCHANGED exitCode
         [] branch' = "file_missing" ->
              /\ displayed' = [kind |-> "local_error",
                               text |-> <<"Error: File not found: ",
                                          Strip(SliceFrom(line, 5))>>]
              /\ pc' = "prompt"
              /\ contacted' = FALSE
              /\ UNCHANGED exitCode
         [] branch' = "file" ->
              \* client.process_file is not defined: AttributeError, caught
              /\ displayed' = ConsoleError(NoProcessFile)
              /\ pc' = "prompt"
              /\ contacted' = FALSE
              /\ UNCHANGED exitCode
         [] OTHER ->
              \* client.send_message(user_input) -> self.chat.send_message
              /\ pc' = "backend"
              /\ contacted' = TRUE
              /\ UNCHANGED <<displayed, exitCode>>
    /\ UNCHANGED <<session, cliKey, environKey, cfgKey, exitCommands, fs,
                   voxco_token, obtained>>

\* input() raises (EOFError at end of input): handled by the outer except
ReadEOF ==
    /\ pc = "prompt"
    /\ branch' = "input_error"
    /\ contacted' = FALSE
    /\ raisedErr' = NONE
    /\ sendReturn' = NoReturn
    /\ lastCall' = NoCall
    /\ toolCalls' = 0
    /\ displayed' = [kind |-> "unexpected",
                     text |-> <<"Unexpected error: ", "EOF when reading a line">>]
    /\ exitCode' = "1"
    /\ pc' = "exited"
    /\ UNCHANGED <<session, cliKey, environKey, cfgKey, exitCommands, fs,
                   voxco_token, user_input, obtained, turns>>

\* the backend invokes a registered tool while producing the reply
ToolCall(fn, token, resp, r) ==
    /\ pc = "backend"
    /\ toolCalls < MaxToolCalls
    /\ toolCalls' = toolCalls + 1
    /\ lastCall' = [fn |-> fn, token |-> token, authed |-> obtained # {},
                    held |-> voxco_token, status |-> resp.status,
                    http |-> r.http, result |-> r.result, raised |-> r.raised]
    /\ obtained' = IF fn = "authenticate_voxco" /\ ~r.raised /\ ~Falsy(r.result)
                   THEN obtained \cup {r.result} ELSE obtained
    /\ UNCHANGED <<pc, session, exitCode, cliKey, environKey, cfgKey, exitCommands,
                   fs, voxco_token, user_input, branch, contacted, raisedErr,
                   sendReturn, displayed, turns>>

ToolAuthenticate ==
    \E resp \in Responses :
        ToolCall("authenticate_voxco", NONE, resp,
                 authenticate_voxco("user", "secret", resp))

ToolLoadSurvey ==
    \E token \in TokenArgs, id \in SurveyIds, resp \in Responses :
        ToolCall("load_survey", token, resp, load_survey(token, id, resp))

ToolSaveSurvey ==
    \E token \in TokenArgs, id \in SurveyIds, doc \in Documents, resp \in Responses :
        ToolCall("save_survey", token, resp, save_survey(token, id, doc, resp))

\* the rest of the turn once client.send_message has produced ret
FinishTurn(ret) ==
    /\ sendReturn' = ret
    /\ displayed' = IF ret.raised THEN ConsoleError(ret.value[1])
                    ELSE display_response(ret.value)
    /\ pc' = "prompt"
    /\ UNCHANGED <<session, exitCode, cliKey, environKey, cfgKey, exitCommands, fs,
                   voxco_token, user_input, branch, contacted, lastCall, obtained,
                   toolCalls, turns>>

\* self.chat.send_message returns a response
BackendReply ==
    /\ pc = "backend"
    /\ \E text \in Replies :
        /\ raisedErr' = NONE
        /\ FinishTurn(send_message_return(text))

\* self.chat.send_message (or response.text) raises
BackendRaise ==
    /\ pc = "backend"
    /\ \E e \in BackendErrors :
        /\ raisedErr' = e
        /\ FinishTurn(send_message_except(e))

\* GeminiClient.authenticate_with_voxco: a public method of the wrapper that
\* chat() itself never calls; any code holding the client may call it
AuthenticateWithVoxco ==
    /\ pc = "prompt"
    /\ session = "Active"
    /\ \E resp \in Responses :
        LET r == authenticate_voxco("user", "secret", resp) IN
        \* "if token:"; an exception of authenticate_voxco passes through
        /\ voxco_token' = IF ~r.raised /\ ~Falsy(r.result) THEN r.result ELSE voxco_token
        /\ obtained' = IF ~r.raised /\ ~Falsy(r.result)
                       THEN obtained \cup {r.result} ELSE obtained
    /\ UNCHANGED <<pc, session, exitCode, cliKey, environKey, cfgKey, exitCommands,
                   fs, user_input, branch, contacted, raisedErr, sendReturn,
                   displayed, lastCall, toolCalls, turns>>

Next ==
    \/ \E ok \in BOOLEAN : Startup(ok)
    \/ \E line \in Lines : ReadLine(line)
    \/ ReadEOF
    \/ ToolAuthenticate
    \/ ToolLoadSurvey
    \/ ToolSaveSurvey
    \/ BackendReply
    \/ BackendRaise
    \/ AuthenticateWithVoxco

Spec == Init /\ [][Next]_vars

-----------------------------------------------------------------------------
(* Properties                                                              *)

TypeOK ==
    /\ pc \in {"start", "prompt", "backend", "exited"}
    /\ session \in {"Uninitialized", "Active"}
    /\ exitCode \in {NONE, "0", "1"}
    /\ branch \in {"none", "exit", "file_empty", "file_missing", "file", "forward",
                   "input_error"}
    /\ contacted \in BOOLEAN
    /\ toolCalls \in 0..MaxToolCalls
    /\ turns \in 0..MaxTurns

\* the last line read, as the loop classifies it
IsExitLine == Strip(Lower(user_input)) \in exitCommands

IsFileLine == StartsWith(Lower(user_input), FilePrefix)

NamedPath == Strip(SliceFrom(user_input, 5))

\* a line has been read and its turn is the current or the last one
LineRead == turns > 0 /\ branch # "input_error"

Contains(parts, e) == \E i \in 1..Len(parts) : parts[i] = e

\* C1: when the chat backend raises during a forwarded line, send_message
\* returns (does not raise) a string that contains the error description, the
\* shell displays that string as the reply, and the shell is back at the
\* prompt with the session Active and no exit code.
C1_BackendErrorIsReply ==
    (LineRead /\ branch = "forward" /\ raisedErr # NONE) =>
        /\ ~sendReturn.raised
        /\ Contains(sendReturn.value, raisedErr)
        /\ displayed = display_response(sendReturn.value)
        /\ pc = "prompt"
        /\ session = "Active"
        /\ exitCode = NONE

C1_Witness ==
    /\ branch = "forward" /\ raisedErr \in BackendErrors
    /\ pc = "prompt" /\ displayed.kind = "response"

\* C2: a line that, lower-cased and trimmed, is a configured exit phrase ends
\* the loop on that turn (farewell, exit code 0) with no call to the chat
\* backend and no adapter call, also when the line begins with "file ".
C2_ExitTerminatesWithoutBackend ==
    (LineRead /\ IsExitLine) =>
        /\ pc = "exited"
        /\ exitCode = "0"
        /\ displayed.kind = "goodbye"
        /\ ~contacted
        /\ lastCall = NoCall
        /\ sendReturn = NoReturn

C2_Witness ==
    /\ user_input = <<"F","I","L","E"," ","a"," ">>
    /\ exitCommands = ExitB
    /\ <<"a">> \in fs
    /\ pc = "exited" /\ exitCode = "0"

C4_FileLineIsForwarded ==
    (LineRead /\ ~IsExitLine /\ IsFileLine /\ NamedPath \in fs /\ pc = "prompt") =>
        /\ contacted
        /\ displayed.kind = "response"

\* C5: with no API key available (none configured, none in the environment,
\* none on the command line) the session never becomes Active, the loop is
\* never entered, and the command ends with the credential message and exit
\* code 1.
C5_NoKeyExitsOne ==
    (Falsy(cfgKey) /\ Falsy(environKey) /\ Falsy(cliKey)) =>
        /\ session = "Uninitialized"
        /\ pc \in {"start", "exited"}
        /\ turns = 0
        /\ ~contacted
        /\ pc = "exited" => (exitCode = "1" /\ displayed = ConsoleError(KeyRequired))

C5_Witness ==
    /\ Falsy(cfgKey) /\ Falsy(environKey) /\ Falsy(cliKey)
    /\ pc = "exited" /\ exitCode = "1"

\* C6: once an authenticate call has obtained a token, the token passed to
\* every later fetch_survey or store_survey call is the token the chat session
\* wrapper holds.
C6_AdapterCallsUseHeldToken ==
    (lastCall.fn \in {"load_survey", "save_survey"} /\ lastCall.authed) =>
        /\ lastCall.held \in obtained
        /\ lastCall.token = lastCall.held

C8_FetchWithoutTokenNoHttp ==
    lastCall.fn = "load_survey" =>
        /\ Falsy(lastCall.token) =>
              (lastCall.result = NONE /\ ~lastCall.http /\ ~lastCall.raised)
        /\ lastCall.http => ~Falsy(lastCall.token)

C8_Witness ==
    /\ lastCall.fn = "load_survey" /\ lastCall.token = ""
    /\ lastCall.status = "2xx"

\* C9: authenticate and fetch_survey never raise to their caller; on a
\* transport failure or a non-2xx response they return None, and a token or a
\* document is returned only after a successful response.
C9_AdapterNeverRaises ==
    lastCall.fn \in {"authenticate_voxco", "load_survey"} =>
        /\ ~lastCall.raised
        /\ lastCall.status \in {"transport", "non2xx"} => lastCall.result = NONE
        /\ lastCall.result # NONE => lastCall.status = "2xx"

\* C10: once the session is Active the loop ends only through the exit-phrase
\* branch, with exit code 0; exit code 1 occurs only before the loop starts.
C10_ActiveLoopEndsOnlyByExit ==
    /\ (session = "Active" /\ pc = "exited") => (branch = "exit" /\ exitCode = "0")
    /\ exitCode = "1" => session = "Uninitialized"

====
